---- MODULE Spec2Model ----
(***************************************************************************)
(* ID3v2 tag writer (libavformat/id3v2enc.c).                              *)
(*                                                                         *)
(* The state is the output AVIOContext (bytes, logical position, sticky    *)
(* error), the ID3v2EncContext (version, size_pos, len), the metadata      *)
(* dictionary of the AVFormatContext and the position of the caller inside *)
(* ff_id3v2_write_metadata.  C strings are sequences of bytes without the  *)
(* terminating NUL; a 32-bit tag is the big-endian number of its 4 bytes.  *)
(* Spec is a caller driving start, write_metadata and finish; SpecSimple   *)
(* is ff_id3v2_write_simple and SpecTwice two calls of it; SpecReuse is a  *)
(* caller starting a second tag block with the context of the first;       *)
(* SpecSize applies id3v2_put_size and its two users to sizes of any width.*)
(***************************************************************************)
EXTENDS Integers, Sequences, FiniteSets, TLC

VARIABLES pb, id3, metadata, t, enc, ret, pc, calls, last, hStart, hFinish,
          allocFails, size, simple

vars == <<pb, id3, metadata, t, enc, ret, pc, calls, last, hStart, hFinish,
          allocFails, size, simple>>

(* ---------------------------- bounds ----------------------------------- *)
\* most entries in the metadata dictionary
MaxEntries == 2
\* most scratch-buffer allocations that fail in one behaviour
MaxAllocFail == 1
\* length of the long ASCII value (makes a frame payload exceed 127 bytes)
LongValueLen == 130
\* how far around each boundary the sizes given to id3v2_put_size range
SizeSpread == 2
\* most entries in the dictionary of a behaviour that writes two tags
MaxRepeatEntries == 1

(* ------------------------- program constants --------------------------- *)
ID3v2_HEADER_SIZE == 10
ID3v2_ENCODING_ISO8859 == 0
ID3v2_ENCODING_UTF16BOM == 1
ID3v2_ENCODING_UTF8 == 3
AVERROR_ENOMEM == -12
AVERROR_EIO == -5
NOT_FOUND == -1

\* a NULL char pointer (no byte of a string is negative)
NULL == <<-1>>

(* ------------------------------ strings -------------------------------- *)
\* the byte a C string holds at 1-based index i (its terminator past the end)
CharAt(str, i) == IF i <= Len(str) THEN str[i] ELSE 0

MKBETAG(a, b, c, d) == d + c * 256 + b * 65536 + a * 16777216

AV_RB32(str) == MKBETAG(CharAt(str, 1), CharAt(str, 2), CharAt(str, 3), CharAt(str, 4))

K_TIT2  == <<84, 73, 84, 50>>
K_TALB  == <<84, 65, 76, 66>>
K_TYER  == <<84, 89, 69, 82>>
K_TDAT  == <<84, 68, 65, 84>>
K_TDRC  == <<84, 68, 82, 67>>
K_TSOT  == <<84, 83, 79, 84>>
K_TZZZ  == <<84, 90, 90, 90>>
K_TIT2x == <<84, 73, 84, 50, 120>>
K_title == <<116, 105, 116, 108, 101>>
K_date  == <<100, 97, 116, 101>>
K_e     == <<195, 169>>
TABLE_END == <<0, 0, 0, 0>>

\* "A" followed by U+00E9 in UTF-8
V_Ae   == <<65, 195, 169>>
V_Long == [i \in 1..LongValueLen |-> 97]

\* frame-id tables: each ends with an empty entry
ff_id3v2_tags   == <<K_TALB, K_TIT2, TABLE_END>>
ff_id3v2_3_tags == <<K_TDAT, K_TYER, TABLE_END>>
ff_id3v2_4_tags == <<K_TDRC, K_TSOT, TABLE_END>>

\* key conversion tables: <<native, generic>> pairs
ff_id3v2_34_metadata_conv == << <<K_TIT2, K_title>> >>
ff_id3v2_4_metadata_conv  == << <<K_TDRC, K_date>> >>

(* ------------------------------- avio ---------------------------------- *)
\* bytes written at 0-based offset pos of buf, overwriting or appending
PutAt(buf, pos, bytes) ==
    IF pos = Len(buf) THEN buf \o bytes
    ELSE LET n == IF pos + Len(bytes) > Len(buf) THEN pos + Len(bytes) ELSE Len(buf)
         IN [i \in 1..n |-> IF i > pos /\ i <= pos + Len(bytes) THEN bytes[i - pos]
                            ELSE IF i <= Len(buf) THEN buf[i] ELSE 0]

\* a write of bytes; accept is whether the sink takes it. The error is sticky,
\* bytes are dropped once it is set, and the logical position always advances
avio_write(s, bytes, accept) ==
    IF s.error # 0 \/ ~accept
    THEN [s EXCEPT !.pos = @ + Len(bytes),
                   !.error = IF s.error # 0 THEN s.error ELSE AVERROR_EIO]
    ELSE [s EXCEPT !.buf = PutAt(s.buf, s.pos, bytes), !.pos = @ + Len(bytes)]

avio_w8(s, b, accept) == avio_write(s, <<b % 256>>, accept)

avio_wl16(s, v, accept) == avio_write(s, <<v % 256, (v \div 256) % 256>>, accept)

avio_wb16(s, v, accept) == avio_write(s, <<(v \div 256) % 256, v % 256>>, accept)

avio_wb32(s, v, accept) ==
    avio_write(s, <<(v \div 16777216) % 256, (v \div 65536) % 256,
                    (v \div 256) % 256, v % 256>>, accept)

avio_tell(s) == s.pos

avio_seek(s, offset) == [s EXCEPT !.pos = offset]

\* a fresh in-memory buffer
avio_open_dyn_buf == [buf |-> <<>>, pos |-> 0, error |-> 0]

avio_close_dyn_buf(dyn) == [len |-> Len(dyn.buf), pb |-> dyn.buf]

\* the string and its terminating NUL
avio_put_str(s, str) == avio_write(s, str \o <<0>>, TRUE)

\* number of leading one bits of a byte
Ones(b) == IF b < 128 THEN 0 ELSE IF b < 192 THEN 1 ELSE IF b < 224 THEN 2
           ELSE IF b < 240 THEN 3 ELSE IF b < 248 THEN 4 ELSE 5

\* PUT_UTF16 followed by avio_wl16: the little-endian bytes of one code point
PutUtf16le(ch) ==
    IF ch < 65536 THEN <<ch % 256, (ch \div 256) % 256>>
    ELSE LET hi == 55296 + ((ch - 65536) \div 1024)
             lo == 56320 + ((ch - 65536) % 1024)
         IN <<hi % 256, (hi \div 256) % 256, lo % 256, (lo \div 256) % 256>>

\* the index after the run of bytes below 128 that starts at byte i
AsciiRunEnd(str, i) ==
    CHOOSE j \in i..(Len(str) + 1) :
        /\ \A k \in i..(j - 1) : str[k] < 128
        /\ j = Len(str) + 1 \/ str[j] >= 128

\* the code point of the n-byte sequence (n in 2..4) at byte i
Utf8CodePoint(str, i, n) ==
    IF n = 2 THEN (str[i] % 32) * 64 + (str[i + 1] - 128)
    ELSE IF n = 3 THEN (str[i] % 16) * 4096 + (str[i + 1] - 128) * 64 + (str[i + 2] - 128)
    ELSE (str[i] % 8) * 262144 + (str[i + 1] - 128) * 4096
         + (str[i + 2] - 128) * 64 + (str[i + 3] - 128)

\* one conversion step at byte i: the bytes consumed (0: the conversion
\* stops, at a byte that cannot start a sequence or at a truncated sequence)
\* and the UTF-16LE bytes produced. A run of bytes below 128 is one step:
\* each of them is one code unit
Utf8Step(str, i, n) ==
    IF n = 0
    THEN [used |-> AsciiRunEnd(str, i) - i,
          out |-> [k \in 1..(2 * (AsciiRunEnd(str, i) - i)) |->
                      IF k % 2 = 1 THEN str[i + (k - 1) \div 2] ELSE 0]]
    ELSE IF n = 1 \/ n > 4 \/ Len(str) < i + n - 1
    THEN [used |-> 0, out |-> <<>>]
    ELSE [used |-> n, out |-> PutUtf16le(Utf8CodePoint(str, i, n))]

\* the UTF-16LE bytes of the UTF-8 string from its byte i on
RECURSIVE Utf8ToUtf16le(_, _)
Utf8ToUtf16le(str, i) ==
    IF i > Len(str) \/ Utf8Step(str, i, Ones(str[i])).used = 0 THEN <<>>
    ELSE Utf8Step(str, i, Ones(str[i])).out
         \o Utf8ToUtf16le(str, i + Utf8Step(str, i, Ones(str[i])).used)

\* the converted string and its 16-bit terminator
avio_put_str16le(s, str) == avio_write(s, Utf8ToUtf16le(str, 1) \o <<0, 0>>, TRUE)

(* ------------------------------ av_dict -------------------------------- *)
\* av_dict_get(m, "", prev, AV_DICT_IGNORE_SUFFIX): the entry after prev
\* (0 is the NULL entry), in insertion order
av_dict_get(m, prev) == IF prev < Len(m) THEN prev + 1 ELSE 0

\* index of the entry of m with this key, 0 when there is none
RECURSIVE DictFind(_, _, _)
DictFind(m, key, i) ==
    IF i > Len(m) THEN 0
    ELSE IF m[i].key = key THEN i
    ELSE DictFind(m, key, i + 1)

\* av_dict_set(m, key, value, 0): an entry with the same key is replaced by
\* the last entry and the array shortened; the new entry is appended
av_dict_set(m, key, value) ==
    LET i == DictFind(m, key, 1)
        kept == IF i = 0 THEN m
                ELSE SubSeq([m EXCEPT ![i] = m[Len(m)]], 1, Len(m) - 1)
    IN Append(kept, [key |-> key, value |-> value])

\* the native name of a generic key in a conversion table, else the key
RECURSIVE ConvKey(_, _, _)
ConvKey(d_conv, key, i) ==
    IF i > Len(d_conv) THEN key
    ELSE IF key = d_conv[i][2] THEN d_conv[i][1]
    ELSE ConvKey(d_conv, key, i + 1)

\* ff_metadata_conv(&m, d_conv, NULL): a new dictionary built entry by entry
RECURSIVE ConvFrom(_, _, _, _)
ConvFrom(m, d_conv, i, dst) ==
    IF i > Len(m) THEN dst
    ELSE ConvFrom(m, d_conv, i + 1,
                  av_dict_set(dst, ConvKey(d_conv, m[i].key, 1), m[i].value))

ff_metadata_conv(m, d_conv) == ConvFrom(m, d_conv, 1, <<>>)

(* ------------------------------ id3v2enc ------------------------------- *)
\* whether the k-th stream write of an operation is accepted, when the sink
\* starts rejecting at write rej (0: it rejects none)
Accept(rej, k) == rej = 0 \/ k < rej

\* id3v2_put_size writing the size as a plain big-endian number
id3v2_put_size_raw(s, n, accept) == avio_wb32(s, n, accept)

\* id3v2_put_size masking every byte with 0xff instead of 0x7f
id3v2_put_size_mask_ff(s, n, accept) ==
    avio_write(s, <<(n \div 2097152) % 256, (n \div 16384) % 256,
                    (n \div 128) % 256, n % 256>>, accept)

\* id3v2_put_size without the mask on its first byte
id3v2_put_size_top_unmasked(s, n, accept) ==
    avio_write(s, <<(n \div 2097152) % 256, (n \div 16384) % 128,
                    (n \div 128) % 128, n % 128>>, accept)

id3v2_put_size(s, n, accept) ==
    avio_write(s, <<(n \div 2097152) % 128, (n \div 16384) % 128,
                    (n \div 128) % 128, n % 128>>, accept)

\* while (*str && *str < 128) str++; return !*str;
string_is_ascii(str) ==
    LET Stops(i) == CharAt(str, i) = 0 \/ CharAt(str, i) >= 128
        stop == CHOOSE i \in 1..(Len(str) + 1) :
                    Stops(i) /\ \A j \in 1..(i - 1) : ~Stops(j)
    IN CharAt(str, stop) = 0

\* the encoding selection looking at the first string only
SelectEncoding_str1_only(e, str1, str2) ==
    IF e = ID3v2_ENCODING_UTF16BOM /\ string_is_ascii(str1)
    THEN ID3v2_ENCODING_ISO8859
    ELSE e

\* the encoding id3v2_put_ttag writes for the encoding asked for
SelectEncoding(e, str1, str2) ==
    IF e = ID3v2_ENCODING_UTF16BOM /\ string_is_ascii(str1)
       /\ (str2 = NULL \/ string_is_ascii(str2))
    THEN ID3v2_ENCODING_ISO8859
    ELSE e

\* put = avio_put_str16le for UTF-16 with BOM, else avio_put_str
put(e, d, str) ==
    IF e = ID3v2_ENCODING_UTF16BOM THEN avio_put_str16le(d, str)
    ELSE avio_put_str(d, str)

\* the byte order mark, written for UTF-16 only
PutBom(e, d) ==
    IF e = ID3v2_ENCODING_UTF16BOM THEN avio_wl16(d, 65279, TRUE) ELSE d

\* the strings with a byte order mark before each of them
PutStrings_bom_each(e, d, str1, str2) ==
    IF str2 = NULL THEN put(e, d, str1)
    ELSE put(e, PutBom(e, put(e, d, str1)), str2)

\* put(dyn_buf, str1); if (str2) put(dyn_buf, str2);
PutStrings(e, d, str1, str2) ==
    IF str2 = NULL THEN put(e, d, str1)
    ELSE put(e, put(e, d, str1), str2)

\* the scratch buffer after the encoding byte, the BOM and the strings
TextPayload(e, str1, str2) ==
    PutStrings(e, PutBom(e, avio_w8(avio_open_dyn_buf, e, TRUE)), str1, str2)

\* the record of a call of id3v2_put_ttag: its arguments and return value
Trace(str1, str2, tag, e, r) ==
    <<[tag |-> tag, str1 |-> str1, str2 |-> str2, enc |-> e, ret |-> r]>>

\* the frame size field: not synchsafe for ID3v2.3
PutFrameSize(ctx, a, len, accept) ==
    IF ctx.version = 3 THEN avio_wb32(a, len, accept)
    ELSE id3v2_put_size(a, len, accept)

\* the frame with every size written synchsafe, whatever the version
EmitFrame_synchsafe(ctx, avioc, tag, dyn, rej) ==
    avio_write(
        avio_wb16(
            id3v2_put_size(avio_wb32(avioc, tag, Accept(rej, 1)), dyn.len,
                           Accept(rej, 2)),
            0, Accept(rej, 3)),
        dyn.pb, Accept(rej, 4))

\* the frame written to the output stream once the scratch buffer is closed
EmitFrame(ctx, avioc, tag, dyn, rej) ==
    avio_write(
        avio_wb16(
            PutFrameSize(ctx, avio_wb32(avioc, tag, Accept(rej, 1)), dyn.len,
                         Accept(rej, 2)),
            0, Accept(rej, 3)),
        dyn.pb, Accept(rej, 4))

\* the return value and the stream after the scratch buffer was closed
PutFrame(ctx, avioc, str1, str2, tag, e, dyn, rej) ==
    [ret |-> dyn.len + ID3v2_HEADER_SIZE,
     avioc |-> EmitFrame(ctx, avioc, tag, dyn, rej),
     trace |-> Trace(str1, str2, tag, e, dyn.len + ID3v2_HEADER_SIZE)]

\* id3v2_put_ttag writing the tag id before it opens the scratch buffer
id3v2_put_ttag_early_tag(ctx, avioc, str1, str2, tag, e, allocOk, rej) ==
    IF ~allocOk
    THEN [ret |-> AVERROR_ENOMEM, avioc |-> avio_wb32(avioc, tag, Accept(rej, 1)),
          trace |-> Trace(str1, str2, tag, e, AVERROR_ENOMEM)]
    ELSE PutFrame(ctx, avioc, str1, str2, tag, e,
                  avio_close_dyn_buf(TextPayload(SelectEncoding(e, str1, str2), str1, str2)),
                  rej)

\* the result of one call: its return value, the output stream after it and
\* a record of the call
id3v2_put_ttag(ctx, avioc, str1, str2, tag, e, allocOk, rej) ==
    IF ~allocOk
    THEN [ret |-> AVERROR_ENOMEM, avioc |-> avioc,
          trace |-> Trace(str1, str2, tag, e, AVERROR_ENOMEM)]
    ELSE PutFrame(ctx, avioc, str1, str2, tag, e,
                  avio_close_dyn_buf(TextPayload(SelectEncoding(e, str1, str2), str1, str2)),
                  rej)

\* for (i = 0; *table[i]; i++) if (tag == AV_RB32(table[i]))
RECURSIVE TableHas(_, _, _)
TableHas(table, tag, i) ==
    IF table[i][1] = 0 THEN FALSE
    ELSE IF tag = AV_RB32(table[i]) THEN TRUE
    ELSE TableHas(table, tag, i + 1)

\* id3v2_check_write_tag without the test of the key's length
id3v2_check_write_tag_no_strlen(ctx, avioc, entry, table, e, allocOk, rej) ==
    IF CharAt(entry.key, 1) # 84
    THEN [ret |-> NOT_FOUND, avioc |-> avioc, trace |-> <<>>]
    ELSE IF TableHas(table, AV_RB32(entry.key), 1)
    THEN id3v2_put_ttag(ctx, avioc, entry.value, NULL, AV_RB32(entry.key), e, allocOk, rej)
    ELSE [ret |-> NOT_FOUND, avioc |-> avioc, trace |-> <<>>]

id3v2_check_write_tag(ctx, avioc, entry, table, e, allocOk, rej) ==
    IF CharAt(entry.key, 1) # 84 \/ Len(entry.key) # 4
    THEN [ret |-> NOT_FOUND, avioc |-> avioc, trace |-> <<>>]
    ELSE IF TableHas(table, AV_RB32(entry.key), 1)
    THEN id3v2_put_ttag(ctx, avioc, entry.value, NULL, AV_RB32(entry.key), e, allocOk, rej)
    ELSE [ret |-> NOT_FOUND, avioc |-> avioc, trace |-> <<>>]

\* the 6 bytes before the size field: magic, version, revision, flags
PutTagHeader(s, id3v2_version, magic, rej) ==
    avio_w8(
        avio_w8(
            avio_wb32(s, MKBETAG(magic[1], magic[2], magic[3], id3v2_version),
                      Accept(rej, 1)),
            0, Accept(rej, 2)),
        0, Accept(rej, 3))

\* the size position read after the placeholder was written
ReserveSize_late_tell(ctx, a, rej) ==
    [id3 |-> [ctx EXCEPT !.size_pos = avio_tell(a) + 4],
     pb |-> avio_wb32(a, 0, Accept(rej, 4))]

\* reserve space for size: size_pos is read before the placeholder is written
ReserveSize(ctx, a, rej) ==
    [id3 |-> [ctx EXCEPT !.size_pos = avio_tell(a)],
     pb |-> avio_wb32(a, 0, Accept(rej, 4))]

\* ff_id3v2_start also setting the running length to 0
ff_id3v2_start_zero_len(ctx, s, id3v2_version, magic, rej) ==
    ReserveSize([ctx EXCEPT !.version = id3v2_version, !.len = 0],
                PutTagHeader(s, id3v2_version, magic, rej), rej)

ff_id3v2_start(ctx, s, id3v2_version, magic, rej) ==
    ReserveSize([ctx EXCEPT !.version = id3v2_version],
                PutTagHeader(s, id3v2_version, magic, rej), rej)

\* ff_id3v2_finish without the seek back to the saved position
ff_id3v2_finish_no_seek_back(ctx, s, rej) ==
    id3v2_put_size(avio_seek(s, ctx.size_pos), ctx.len, Accept(rej, 1))

ff_id3v2_finish(ctx, s, rej) ==
    avio_seek(id3v2_put_size(avio_seek(s, ctx.size_pos), ctx.len, Accept(rej, 1)),
              avio_tell(s))

\* the encoding ff_id3v2_write_metadata asks for
MetadataEncoding(ctx) ==
    IF ctx.version = 3 THEN ID3v2_ENCODING_UTF16BOM ELSE ID3v2_ENCODING_UTF8

\* the key conversions ff_id3v2_write_metadata applies before its loop
MetadataConv(ctx, m) ==
    LET m1 == ff_metadata_conv(m, ff_id3v2_34_metadata_conv)
    IN IF ctx.version = 4 THEN ff_metadata_conv(m1, ff_id3v2_4_metadata_conv) ELSE m1

\* the version-specific table of the second lookup
VersionTable(ctx) == IF ctx.version = 3 THEN ff_id3v2_3_tags ELSE ff_id3v2_4_tags

\* the loop body without its continue statements
AfterCheck_no_continue(r, next) == next

\* where the loop goes after a table lookup returned r: back to the loop
\* head when a frame was written (continue), else on to the next attempt
AfterCheck(r, next) == IF r.ret > 0 THEN "wm_loop" ELSE next

\* id3->len += ret without the test of ret
LenAfterCheck_any_ret(ctx, r) == [ctx EXCEPT !.len = @ + r.ret]

\* id3->len += ret, done only when the lookup wrote a frame
LenAfterCheck(ctx, r) == IF r.ret > 0 THEN [ctx EXCEPT !.len = @ + r.ret] ELSE ctx

(* ------------------------------ inputs --------------------------------- *)
Versions == {3, 4}

\* "ID3"
Magics == {<<73, 68, 51>>}

\* the stream write at which the sink starts rejecting (0: none): the first
\* write of ff_id3v2_start, any of the 4 writes of a frame (tag id, size,
\* flags, payload), the write of ff_id3v2_finish
StartRejects == 0..1

FrameRejects == 0..4

FinishRejects == 0..1

\* the entries a dictionary is built from: a common-table key, a key of each
\* version table, a 4-character T key of no table, a longer key starting
\* with a table key, a key not starting with T, and a generic key that the
\* conversion renames; values with and without a byte above 127
Entries ==
    { [key |-> K_TIT2,  value |-> V_Long],
      [key |-> K_TYER,  value |-> V_Ae],
      [key |-> K_TDRC,  value |-> V_Long],
      [key |-> K_TZZZ,  value |-> V_Ae],
      [key |-> K_TIT2x, value |-> V_Long],
      [key |-> K_title, value |-> V_Ae],
      [key |-> K_e,     value |-> V_Long] }

\* a dictionary holds no key twice
DistinctKeys(m) == \A i, j \in 1..Len(m) : i # j => m[i].key # m[j].key

Dictionaries ==
    {m \in UNION {[1..n -> Entries] : n \in 0..MaxEntries} : DistinctKeys(m)}

\* the bytes the caller wrote to the stream before the tag
StreamPrefix == <<255, 251>>

NoCall == [valid |-> FALSE, t |-> 0, tag |-> 0, str1 |-> <<>>, str2 |-> <<>>,
           enc |-> 0, ret |-> 0, allocOk |-> TRUE, version |-> 0,
           before |-> avio_open_dyn_buf, after |-> avio_open_dyn_buf]

\* the record kept of a call of id3v2_put_ttag
CallRecord(tr, idx, allocOk, before, after) ==
    [valid |-> TRUE, t |-> idx, tag |-> tr.tag, str1 |-> tr.str1, str2 |-> tr.str2,
     enc |-> tr.enc, ret |-> tr.ret, allocOk |-> allocOk, version |-> id3.version,
     before |-> before, after |-> after]

\* the record kept of the calls of ff_id3v2_write_simple: how many were
\* started, the dictionary the first was given, what ff_id3v2_write_metadata
\* returned in the current one, the stream and return value of the first
NoSimple == [run |-> 0, input |-> <<>>, wm |-> 0,
             first |-> [pb |-> avio_open_dyn_buf, ret |-> 0, version |-> 0,
                        magic |-> <<>>]]

LogEntry(tr, idx) ==
    [t |-> idx, tag |-> tr.tag, str1 |-> tr.str1, str2 |-> tr.str2, ret |-> tr.ret]

(* ------------------------------ actions -------------------------------- *)
Init ==
    /\ pb = [buf |-> StreamPrefix, pos |-> Len(StreamPrefix), error |-> 0]
    /\ id3 = [version |-> 0, size_pos |-> 0, len |-> 0]
    /\ metadata \in Dictionaries
    /\ t = 0
    /\ enc = 0
    /\ ret = 0
    /\ pc = "unstarted"
    /\ calls = <<>>
    /\ last = NoCall
    /\ hStart = [pb |-> pb, len |-> 0, version |-> 0, magic |-> <<>>]
    /\ hFinish = [pos |-> 0]
    /\ allocFails = 0
    /\ size = 0
    /\ simple = NoSimple

Start ==
    /\ pc = "unstarted"
    /\ \E v \in Versions, magic \in Magics, rej \in StartRejects :
       \E r \in {ff_id3v2_start(id3, pb, v, magic, rej)} :
            /\ id3' = r.id3
            /\ pb' = r.pb
            /\ hStart' = [pb |-> pb, len |-> id3.len, version |-> v, magic |-> magic]
    /\ pc' = "started"
    /\ calls' = <<>>
    /\ last' = NoCall
    /\ UNCHANGED <<metadata, t, enc, ret, hFinish, allocFails, size,
                   simple>>

\* ff_id3v2_write_metadata up to its loop
WmEnter ==
    /\ pc = "started"
    /\ t' = 0
    /\ enc' = MetadataEncoding(id3)
    /\ metadata' = MetadataConv(id3, metadata)
    /\ pc' = "wm_loop"
    /\ UNCHANGED <<pb, id3, ret, calls, last, hStart, hFinish, allocFails, size,
                   simple>>

\* the loop condition: the next entry, or return 0 after the last
WmNext ==
    /\ pc = "wm_loop"
    /\ t' = av_dict_get(metadata, t)
    /\ IF t' = 0 THEN pc' = "wm_ret" /\ ret' = 0
                 ELSE pc' = "wm_common" /\ ret' = ret
    /\ UNCHANGED <<pb, id3, metadata, enc, calls, last, hStart, hFinish,
                   allocFails, size, simple>>

\* one table lookup of the loop body and what follows it
WmCheck(at, table, next) ==
    /\ pc = at
    /\ \E allocOk \in BOOLEAN, rej \in FrameRejects :
       \E r \in {id3v2_check_write_tag(id3, pb, metadata[t], table, enc, allocOk, rej)} :
            /\ r.trace # <<>> /\ ~allocOk => allocFails < MaxAllocFail
            /\ pb' = r.avioc
            /\ ret' = r.ret
            /\ id3' = LenAfterCheck(id3, r)
            /\ pc' = AfterCheck(r, next)
            /\ calls' = IF r.trace = <<>> THEN calls
                        ELSE Append(calls, LogEntry(r.trace[1], t))
            /\ last' = IF r.trace = <<>> THEN last
                       ELSE CallRecord(r.trace[1], t, allocOk, pb, r.avioc)
            /\ allocFails' = IF r.trace # <<>> /\ ~allocOk THEN allocFails + 1
                             ELSE allocFails
    /\ UNCHANGED <<metadata, t, enc, hStart, hFinish, size,
                   simple>>

WmCommon == WmCheck("wm_common", ff_id3v2_tags, "wm_version")

WmVersion == WmCheck("wm_version", VersionTable(id3), "wm_txxx")

\* unknown tag, write as TXXX frame
WmTxxx ==
    /\ pc = "wm_txxx"
    /\ \E allocOk \in BOOLEAN, rej \in FrameRejects :
       \E r \in {id3v2_put_ttag(id3, pb, metadata[t].key, metadata[t].value,
                               MKBETAG(84, 88, 88, 88), enc, allocOk, rej)} :
            /\ ~allocOk => allocFails < MaxAllocFail
            /\ pb' = r.avioc
            /\ ret' = r.ret
            /\ id3' = IF r.ret < 0 THEN id3 ELSE [id3 EXCEPT !.len = @ + r.ret]
            /\ pc' = IF r.ret < 0 THEN "wm_ret" ELSE "wm_loop"
            /\ calls' = Append(calls, LogEntry(r.trace[1], t))
            /\ last' = CallRecord(r.trace[1], t, allocOk, pb, r.avioc)
            /\ allocFails' = IF allocOk THEN allocFails ELSE allocFails + 1
    /\ UNCHANGED <<metadata, t, enc, hStart, hFinish, size,
                   simple>>

Finish ==
    /\ pc \in {"started", "wm_ret"}
    /\ \E rej \in FinishRejects : pb' = ff_id3v2_finish(id3, pb, rej)
    /\ hFinish' = [pos |-> avio_tell(pb)]
    /\ pc' = "finished"
    /\ UNCHANGED <<id3, metadata, t, enc, ret, calls, last, hStart, allocFails, size,
                   simple>>

Next ==
    \/ Start
    \/ WmEnter
    \/ WmNext
    \/ WmCommon
    \/ WmVersion
    \/ WmTxxx
    \/ Finish

Spec == Init /\ [][Next]_vars

(* ------------------------ ff_id3v2_write_simple ------------------------ *)
\* the context of the call before, as a static context would be
SimpleContext_stale == id3

\* ID3v2EncContext id3 = { 0 };
SimpleContext == [version |-> 0, size_pos |-> 0, len |-> 0]

\* the test of the value ff_id3v2_write_metadata returned, always false
SimpleFails_never(r) == FALSE

\* if ((ret = ff_id3v2_write_metadata(s, &id3)) < 0)
SimpleFails(r) == r < 0

\* ff_id3v2_write_simple up to its call of ff_id3v2_write_metadata: a zeroed
\* context of its own, then ff_id3v2_start
SimpleStart ==
    /\ pc = "unstarted"
    /\ \E v \in Versions, magic \in Magics, rej \in StartRejects :
       \E r \in {ff_id3v2_start(SimpleContext, pb, v, magic, rej)} :
            /\ id3' = r.id3
            /\ pb' = r.pb
            /\ hStart' = [pb |-> pb, len |-> SimpleContext.len, version |-> v,
                          magic |-> magic]
    /\ simple' = [simple EXCEPT !.run = @ + 1,
                                !.input = IF simple.run = 0 THEN metadata ELSE @]
    /\ pc' = "started"
    /\ calls' = <<>>
    /\ last' = NoCall
    /\ UNCHANGED <<metadata, t, enc, ret, hFinish, allocFails, size>>

\* ff_id3v2_write_metadata returned an error: return ret
SimpleError ==
    /\ pc = "wm_ret"
    /\ SimpleFails(ret)
    /\ simple' = [simple EXCEPT !.wm = ret]
    /\ pc' = "simple_ret"
    /\ UNCHANGED <<pb, id3, metadata, t, enc, ret, calls, last, hStart, hFinish,
                   allocFails, size>>

\* ff_id3v2_finish(&id3, s->pb); return 0;
SimpleFinish ==
    /\ pc = "wm_ret"
    /\ ~SimpleFails(ret)
    /\ \E rej \in FinishRejects : pb' = ff_id3v2_finish(id3, pb, rej)
    /\ hFinish' = [pos |-> avio_tell(pb)]
    /\ simple' = [simple EXCEPT !.wm = ret]
    /\ ret' = 0
    /\ pc' = "simple_ret"
    /\ UNCHANGED <<id3, metadata, t, enc, calls, last, hStart, allocFails, size>>

SimpleNext ==
    \/ SimpleStart
    \/ WmEnter
    \/ WmNext
    \/ WmCommon
    \/ WmVersion
    \/ WmTxxx
    \/ SimpleError
    \/ SimpleFinish

SpecSimple == Init /\ [][SimpleNext]_vars

(* -------------------- ff_id3v2_write_simple, twice --------------------- *)
\* the stream every call of ff_id3v2_write_simple is given
FreshStream == [buf |-> StreamPrefix, pos |-> Len(StreamPrefix), error |-> 0]

TwiceInit == Init /\ Len(metadata) <= MaxRepeatEntries

\* after a call in which nothing failed, the caller keeps its stream and
\* return value and sets up a second call: a second stream like the first,
\* and the dictionary either as the first call was given it or as the first
\* call left it (ff_id3v2_write_metadata converts the keys in place)
SimpleAgain ==
    /\ pc = "simple_ret"
    /\ simple.run = 1
    /\ pb.error = 0
    /\ ret = 0
    /\ \A k \in 1..Len(calls) : calls[k].ret > 0
    /\ simple' = [simple EXCEPT !.first = [pb |-> pb, ret |-> ret,
                                           version |-> hStart.version,
                                           magic |-> hStart.magic]]
    /\ pb' = FreshStream
    /\ metadata' \in {metadata, simple.input}
    /\ hFinish' = [pos |-> 0]
    /\ pc' = "unstarted"
    /\ UNCHANGED <<id3, t, enc, ret, calls, last, hStart, allocFails, size>>

TwiceNext ==
    \/ SimpleNext
    \/ SimpleAgain

SpecTwice == TwiceInit /\ [][TwiceNext]_vars

(* ------------------- one context for two tag blocks ------------------- *)
ReuseInit == Init /\ Len(metadata) <= MaxRepeatEntries

\* the tag block that ff_id3v2_finish completed is the first of the stream
FirstBlockDone == pc = "finished" /\ hStart.pb.pos = Len(StreamPrefix)

\* ff_id3v2_start for a second tag block, at the end of a first one that
\* the stream took without error, with the context of the first as it is
Restart ==
    /\ FirstBlockDone
    /\ pb.error = 0
    /\ \E v \in Versions, magic \in Magics, rej \in StartRejects :
       \E r \in {ff_id3v2_start(id3, pb, v, magic, rej)} :
            /\ id3' = r.id3
            /\ pb' = r.pb
            /\ hStart' = [pb |-> pb, len |-> id3.len, version |-> v, magic |-> magic]
    /\ pc' = "started"
    /\ calls' = <<>>
    /\ last' = NoCall
    /\ UNCHANGED <<metadata, t, enc, ret, hFinish, allocFails, size, simple>>

ReuseNext ==
    \/ Next
    \/ Restart

SpecReuse == ReuseInit /\ [][ReuseNext]_vars

(* ------------------ id3v2_put_size on sizes of every width ------------- *)
\* the largest value of the int that id3v2_put_size and id3->len hold
INT_MAX == 2^30 + (2^30 - 1)

\* the largest size four 7-bit bytes hold, 0x0FFFFFFF
MaxSynchsafe == 2^28 - 1

\* sizes at which a byte of the encoding changes, and sizes of more than 28
\* bits
SizeBases ==
    {0, 2^7, 2^14, 2^21, 2^21 + 2^14 + 2^7, MaxSynchsafe, 2^28 + 2^7,
     2^28 + 2^21 + 2^14, 2^29 + 2^28 - 2^7, 2^30 + 2^28 + 2^14, INT_MAX}

\* the sizes from each boundary upwards and downwards, within the int
SizeInputs ==
    {b + d : b \in SizeBases \ {INT_MAX}, d \in 0..SizeSpread}
    \cup {b - d : b \in SizeBases \ {0}, d \in 0..SizeSpread}

\* a context whose running length is some size, after ff_id3v2_start wrote
\* the tag header, and that size as the argument of the calls below
SizeInit ==
    /\ size \in SizeInputs
    /\ \E v \in Versions, magic \in Magics :
       \E r \in {ff_id3v2_start([version |-> 0, size_pos |-> 0, len |-> size],
                                [buf |-> StreamPrefix, pos |-> Len(StreamPrefix),
                                 error |-> 0],
                                v, magic, 0)} :
            /\ id3 = r.id3
            /\ pb = r.pb
            /\ hStart = [pb |-> r.pb, len |-> size, version |-> v, magic |-> magic]
    /\ metadata = <<>>
    /\ t = 0
    /\ enc = 0
    /\ ret = 0
    /\ pc = "size_ready"
    /\ calls = <<>>
    /\ last = NoCall
    /\ hFinish = [pos |-> 0]
    /\ allocFails = 0
    /\ simple = NoSimple

\* id3v2_put_size(pb, size) at the end of the stream
SizePut ==
    /\ pc = "size_ready"
    /\ pb' = id3v2_put_size(pb, size, TRUE)
    /\ pc' = "size_put"
    /\ UNCHANGED <<id3, metadata, t, enc, ret, calls, last, hStart, hFinish,
                   allocFails, size, simple>>

\* the size field of a frame whose payload has size bytes
SizeFrame ==
    /\ pc = "size_ready"
    /\ pb' = PutFrameSize(id3, pb, size, TRUE)
    /\ pc' = "size_frame"
    /\ UNCHANGED <<id3, metadata, t, enc, ret, calls, last, hStart, hFinish,
                   allocFails, size, simple>>

\* ff_id3v2_finish with id3->len = size
SizeFinish ==
    /\ pc = "size_ready"
    /\ pb' = ff_id3v2_finish(id3, pb, 0)
    /\ hFinish' = [pos |-> avio_tell(pb)]
    /\ pc' = "size_finished"
    /\ UNCHANGED <<id3, metadata, t, enc, ret, calls, last, hStart, allocFails,
                   size, simple>>

SizeNext ==
    \/ SizePut
    \/ SizeFrame
    \/ SizeFinish

SpecSize == SizeInit /\ [][SizeNext]_vars

(* --------------------------- reading the stream ------------------------ *)
BigEndian32(n) ==
    <<(n \div 16777216) % 256, (n \div 65536) % 256, (n \div 256) % 256, n % 256>>

BigEndianValue(b) == b[1] * 16777216 + b[2] * 65536 + b[3] * 256 + b[4]

SynchsafeBytes(n) ==
    <<(n \div 2097152) % 128, (n \div 16384) % 128, (n \div 128) % 128, n % 128>>

SynchsafeDecode(b) == b[1] * 2097152 + b[2] * 16384 + b[3] * 128 + b[4]

AllAscii(str) == \A i \in 1..Len(str) : str[i] < 128

\* the sum of the byte counts the successful frame writes returned
RECURSIVE SumReturned(_, _)
SumReturned(log, i) ==
    IF i > Len(log) THEN 0
    ELSE (IF log[i].ret > 0 THEN log[i].ret ELSE 0) + SumReturned(log, i + 1)

\* where the tag header written by ff_id3v2_start begins and ends
HeaderStart == hStart.pb.pos

HeaderEnd == hStart.pb.pos + 10

\* the stream holds every byte written to it
SinkAccepted == pb.error = 0

(* ------------------------------- claims -------------------------------- *)
\* C1: for a context zeroed before ff_id3v2_start, after the frame writes of
\* ff_id3v2_write_metadata that succeeded returned T bytes in total and
\* ff_id3v2_finish ran, the 4 bytes at the reserved size offset decode
\* (synchsafe) to T, and T is the number of bytes between the end of the
\* 10-byte tag header and the end of the last frame.
C1_SizeFieldDecodesToTotal ==
    (pc = "finished" /\ hStart.len = 0 /\ SinkAccepted) =>
        LET T == SumReturned(calls, 1)
        IN /\ SynchsafeDecode(SubSeq(pb.buf, HeaderStart + 7, HeaderStart + 10)) = T
           /\ T = Len(pb.buf) - HeaderEnd
           /\ T = pb.pos - HeaderEnd

C1_Witness ==
    /\ pc = "finished"
    /\ hStart.len = 0
    /\ SinkAccepted
    /\ Len(calls) = 2
    /\ \A i \in 1..Len(calls) : calls[i].ret > 0
    /\ SumReturned(calls, 1) > 127

\* C2: ff_id3v2_finish leaves the stream position where it was immediately
\* before the call, whatever the size offset and the running length.
C2_FinishRestoresPosition ==
    pc = "finished" => pb.pos = hFinish.pos

C2_Witness ==
    /\ pc = "finished"
    /\ id3.len > 0
    /\ hFinish.pos > id3.size_pos + 4
    /\ pb.pos = hFinish.pos

\* C10: ff_id3v2_start at stream position p records the version given and
\* the size offset p + 6, leaves the position at p + 10 and the running
\* length alone, and appends exactly the 3 magic bytes, the version byte, a
\* zero revision byte, a zero flags byte and four zero placeholder bytes.
C10_StartWritesHeaderShell ==
    pc = "started" =>
        /\ id3.version = hStart.version
        /\ id3.size_pos = HeaderStart + 6
        /\ id3.len = hStart.len
        /\ pb.pos = HeaderStart + 10
        /\ SinkAccepted =>
             pb.buf = hStart.pb.buf \o hStart.magic
                      \o <<hStart.version, 0, 0, 0, 0, 0, 0>>

C10_Witness ==
    /\ pc = "started"
    /\ SinkAccepted
    /\ HeaderStart > 0
    /\ Len(pb.buf) = HeaderStart + 10

(* ------------------------- what the claims expect ---------------------- *)
\* the frame ids of a table, as a set
TableIds(table) == {table[i] : i \in 1..(Len(table) - 1)}

\* the key is a frame id of the common table or of the table of the version
KnownId(key, version) ==
    /\ Len(key) = 4
    /\ key[1] = 84
    /\ \/ key \in TableIds(ff_id3v2_tags)
       \/ key \in TableIds(IF version = 3 THEN ff_id3v2_3_tags ELSE ff_id3v2_4_tags)

\* the frame an entry resolves to: its id as 4 bytes and its strings
ExpectedFrame(e, version) ==
    IF KnownId(e.key, version)
    THEN [id |-> e.key, str1 |-> e.value, str2 |-> NULL]
    ELSE [id |-> <<84, 88, 88, 88>>, str1 |-> e.key, str2 |-> e.value]

\* the entries whose loop iteration is over
Processed ==
    IF pc = "wm_loop" THEN t
    ELSE IF pc \in {"wm_common", "wm_version", "wm_txxx"} THEN t - 1
    ELSE IF pc = "wm_ret" /\ ret = 0 THEN Len(metadata)
    ELSE 0

\* no call of id3v2_put_ttag failed and the sink accepted every write
FailureFree == SinkAccepted /\ \A i \in 1..Len(calls) : calls[i].ret > 0

\* the calls of id3v2_put_ttag made for entry i
CallsFor(i) == {k \in 1..Len(calls) : calls[k].t = i}

\* the last call of id3v2_put_ttag got its scratch buffer and the sink
\* accepted all it wrote
LastWritten ==
    last.valid /\ last.allocOk /\ last.before.error = 0 /\ last.after.error = 0

\* the bytes the last call of id3v2_put_ttag appended to the stream
LastAppended ==
    SubSeq(last.after.buf, Len(last.before.buf) + 1, Len(last.after.buf))

\* the frames of a version read back from bytes: id, size field, 2 flag
\* bytes, payload of the size the size field gives
RECURSIVE ParseFrames(_, _, _)
ParseFrames(bytes, from, version) ==
    IF from + 10 > Len(bytes) + 1 THEN <<>>
    ELSE <<[id |-> SubSeq(bytes, from, from + 3),
            payload |-> SubSeq(bytes, from + 10,
                               from + 9 + (IF version = 3
                                           THEN BigEndianValue(SubSeq(bytes, from + 4, from + 7))
                                           ELSE SynchsafeDecode(SubSeq(bytes, from + 4, from + 7))))]>>
         \o ParseFrames(bytes,
                        from + 10 + (IF version = 3
                                     THEN BigEndianValue(SubSeq(bytes, from + 4, from + 7))
                                     ELSE SynchsafeDecode(SubSeq(bytes, from + 4, from + 7))),
                        version)

\* the frames in the stream after the tag header
StreamFrames == ParseFrames(pb.buf, HeaderEnd + 1, id3.version)

\* the payload of the frame of entry e
ExpectedPayload(e, version) ==
    TextPayload(SelectEncoding(enc, ExpectedFrame(e, version).str1,
                               ExpectedFrame(e, version).str2),
                ExpectedFrame(e, version).str1, ExpectedFrame(e, version).str2).buf

\* C3: tag resolution is ordered and first-match-wins: in a failure-free run
\* exactly one frame is written for every entry whose iteration is over; its
\* id is the key and its sole string the value when the key has exactly 4
\* characters, starts with 'T' and is in the common table or in the table of
\* the version (the v3 table for version 3, else the v4 table), and in every
\* other case its id is TXXX, its first string the key and its second the
\* value.
C3_OneFramePerEntryResolvedInOrder ==
    FailureFree =>
        \A i \in 1..Processed :
            /\ Cardinality(CallsFor(i)) = 1
            /\ \A k \in CallsFor(i) :
                 /\ BigEndian32(calls[k].tag) = ExpectedFrame(metadata[i], id3.version).id
                 /\ calls[k].str1 = ExpectedFrame(metadata[i], id3.version).str1
                 /\ calls[k].str2 = ExpectedFrame(metadata[i], id3.version).str2

C3_Witness ==
    /\ FailureFree
    /\ pc = "wm_ret"
    /\ Processed = 2
    /\ Len(calls) = 2
    /\ metadata[1].key = K_TYER
    /\ BigEndian32(calls[1].tag) = K_TYER
    /\ calls[1].str2 = NULL
    /\ metadata[2].key = K_TIT2x
    /\ BigEndian32(calls[2].tag) = <<84, 88, 88, 88>>
    /\ calls[2].str1 = K_TIT2x

\* C4: a text frame with payload length L written by id3v2_put_ttag appends
\* to the stream the 4-byte big-endian tag id, a 4-byte size field (L as a
\* raw big-endian number for version 3, the synchsafe encoding of L for any
\* other version), 2 zero flag bytes and the L payload bytes; the call
\* returns L + 10, the number of bytes appended.
C4_FrameLayout ==
    LastWritten =>
        /\ SubSeq(last.after.buf, 1, Len(last.before.buf)) = last.before.buf
        /\ Len(LastAppended) = last.ret
        /\ last.after.pos = last.before.pos + last.ret
        /\ SubSeq(LastAppended, 1, 4) = BigEndian32(last.tag)
        /\ SubSeq(LastAppended, 5, 8) =
               IF last.version = 3 THEN BigEndian32(last.ret - 10)
               ELSE SynchsafeBytes(last.ret - 10)
        /\ SubSeq(LastAppended, 9, 10) = <<0, 0>>
        /\ SubSeq(LastAppended, 11, last.ret) =
               TextPayload(SelectEncoding(last.enc, last.str1, last.str2),
                           last.str1, last.str2).buf

C4_Witness ==
    /\ LastWritten
    /\ last.version = 3
    /\ last.ret - 10 > 127
    /\ SubSeq(LastAppended, 5, 8) # SynchsafeBytes(last.ret - 10)

\* C5: the encoding asked for is UTF-16 with BOM for version 3 and UTF-8
\* otherwise; the encoding byte written is ISO-8859-1 if and only if UTF-16
\* with BOM was asked for and every character of every string given is
\* below 128, and in every other case it is the encoding asked for.
C5_EncodingSelection ==
    /\ pc \in {"wm_loop", "wm_common", "wm_version", "wm_txxx", "wm_ret"} =>
           enc = IF id3.version = 3 THEN ID3v2_ENCODING_UTF16BOM
                 ELSE ID3v2_ENCODING_UTF8
    /\ LastWritten =>
           /\ last.enc = IF last.version = 3 THEN ID3v2_ENCODING_UTF16BOM
                         ELSE ID3v2_ENCODING_UTF8
           /\ LastAppended[11] = ID3v2_ENCODING_ISO8859 <=>
                  /\ last.enc = ID3v2_ENCODING_UTF16BOM
                  /\ AllAscii(last.str1)
                  /\ last.str2 = NULL \/ AllAscii(last.str2)
           /\ LastAppended[11] # ID3v2_ENCODING_ISO8859 => LastAppended[11] = last.enc

C5_Witness ==
    /\ LastWritten
    /\ last.enc = ID3v2_ENCODING_UTF16BOM
    /\ last.str2 # NULL
    /\ AllAscii(last.str1)
    /\ ~AllAscii(last.str2)
    /\ LastAppended[11] = ID3v2_ENCODING_UTF16BOM

\* C6: ff_id3v2_write_metadata stops at the first frame write that fails: no
\* frame write is attempted after a failed one, and write_metadata returns
\* the error of the failed write.
C6_StopsAtFirstFrameWriteError ==
    \A k \in 1..Len(calls) :
        calls[k].ret < 0 =>
            /\ k = Len(calls)
            /\ pc = "wm_ret" => ret = calls[k].ret

\* C7: when the scratch buffer cannot be allocated, id3v2_put_ttag returns
\* the out-of-memory error and leaves the bytes and the position of the
\* output stream as they were before the call.
C7_AllocFailureLeavesStream ==
    (last.valid /\ ~last.allocOk) =>
        /\ last.ret = AVERROR_ENOMEM
        /\ last.after = last.before

C7_Witness ==
    /\ last.valid
    /\ ~last.allocOk
    /\ last.before.error = 0
    /\ Len(last.before.buf) > HeaderEnd
    /\ last.after = last.before

\* C8: when the sink rejects a write made while a frame is emitted, the
\* frame write returns that failure instead of a byte count and the running
\* length is not increased for the frame.
C8_SinkFailureReturned ==
    (last.valid /\ last.before.error = 0 /\ last.after.error # 0) =>
        /\ last.ret = last.after.error
        /\ id3.len = SumReturned(calls, 1) - (IF last.ret > 0 THEN last.ret ELSE 0)

\* C9: in a failure-free run the frames in the stream are those of the
\* metadata entries in iteration order, one frame per entry whose iteration
\* is over, neither sorted nor deduplicated.
C9_FramesInEntryOrder ==
    (FailureFree /\ pc \in {"wm_loop", "wm_common", "wm_version", "wm_txxx", "wm_ret"}) =>
        /\ Len(StreamFrames) = Processed
        /\ \A i \in 1..Len(StreamFrames) :
             /\ StreamFrames[i].id = ExpectedFrame(metadata[i], id3.version).id
             /\ StreamFrames[i].payload = ExpectedPayload(metadata[i], id3.version)

C9_Witness ==
    /\ FailureFree
    /\ pc = "wm_ret"
    /\ Len(metadata) = 2
    /\ Len(StreamFrames) = 2
    /\ StreamFrames[1].id = <<84, 88, 88, 88>>
    /\ StreamFrames[2].id = <<84, 88, 88, 88>>
    /\ StreamFrames[1].payload # StreamFrames[2].payload

\* the 4 bytes the last operation of SpecSize wrote: at the end of the
\* stream, or at the size offset for ff_id3v2_finish
SizeBytes ==
    IF pc = "size_finished"
    THEN SubSeq(pb.buf, id3.size_pos + 1, id3.size_pos + 4)
    ELSE SubSeq(pb.buf, Len(hStart.pb.buf) + 1, Len(pb.buf))

\* C11: for every n in [0, 0x0FFFFFFF], id3v2_put_size(n) writes 4 bytes
\* b0..b3 that all have the high bit clear, are (n>>21)&0x7F, (n>>14)&0x7F,
\* (n>>7)&0x7F and n&0x7F, and decode (b0*2^21 + b1*2^14 + b2*2^7 + b3) to n.
C11_SynchsafeRoundTrip ==
    (pc = "size_put" /\ size <= MaxSynchsafe) =>
        /\ Len(pb.buf) = Len(hStart.pb.buf) + 4
        /\ \A i \in 1..4 : SizeBytes[i] \in 0..127
        /\ \A i \in 1..4 : SizeBytes[i] = (size \div 2^(7 * (4 - i))) % 2^7
        /\ SizeBytes[1] * 2^21 + SizeBytes[2] * 2^14 + SizeBytes[3] * 2^7
             + SizeBytes[4] = size

C11_Witness ==
    /\ pc = "size_put"
    /\ size = MaxSynchsafe
    /\ SizeBytes = <<127, 127, 127, 127>>

\* C12: for a non-negative size n above 0x0FFFFFFF id3v2_put_size writes the
\* synchsafe encoding of n mod 2^28 and no error is reported: the size field
\* of ff_id3v2_finish with a running length n, and that of a version 4 frame
\* with payload length n, decode to n mod 2^28, every byte has its high bit
\* clear, and ff_id3v2_finish completes as for any size (4 bytes overwritten
\* at the size offset, the position restored).
C12_LargeSizesTruncate ==
    (/\ size > MaxSynchsafe
     /\ \/ pc \in {"size_put", "size_finished"}
        \/ pc = "size_frame" /\ id3.version = 4) =>
        /\ pb.error = 0
        /\ \A i \in 1..4 : SizeBytes[i] \in 0..127
        /\ SynchsafeDecode(SizeBytes) = size % 2^28
        /\ pc = "size_finished" =>
             /\ id3.len = size
             /\ Len(pb.buf) = Len(hStart.pb.buf)
             /\ pb.pos = hFinish.pos
        /\ pc # "size_finished" => Len(pb.buf) = Len(hStart.pb.buf) + 4

C12_Witness ==
    /\ pc = "size_finished"
    /\ size = 2^30 + 2^28 + 2^14
    /\ id3.len > MaxSynchsafe
    /\ SizeBytes = <<0, 1, 0, 0>>

\* the payload of the frame the last call of id3v2_put_ttag appended
LastPayload == SubSeq(LastAppended, 11, Len(LastAppended))

\* a string and its terminator as they lie in a payload of encoding e
EncodedString(e, str) ==
    IF e = ID3v2_ENCODING_UTF16BOM THEN Utf8ToUtf16le(str, 1) \o <<0, 0>>
    ELSE str \o <<0>>

\* C13: every frame payload starts with exactly one encoding byte (0, 1 or
\* 3), the encoding selected for the frame; for UTF-16 with BOM it is
\* followed by exactly one byte order mark, the bytes 0xFF 0xFE, before the
\* first string and none before the second string of a TXXX frame; for the
\* single-byte encoding and UTF-8 there is no byte order mark; the strings
\* follow in the order first string, second string.
C13_TextPayloadLayout ==
    LastWritten =>
        /\ LastPayload[1] \in {ID3v2_ENCODING_ISO8859, ID3v2_ENCODING_UTF16BOM,
                               ID3v2_ENCODING_UTF8}
        /\ LastPayload[1] =
               IF /\ last.enc = ID3v2_ENCODING_UTF16BOM
                  /\ AllAscii(last.str1)
                  /\ last.str2 = NULL \/ AllAscii(last.str2)
               THEN ID3v2_ENCODING_ISO8859
               ELSE last.enc
        /\ LastPayload =
               <<LastPayload[1]>>
               \o (IF LastPayload[1] = ID3v2_ENCODING_UTF16BOM THEN <<255, 254>>
                   ELSE <<>>)
               \o EncodedString(LastPayload[1], last.str1)
               \o (IF last.str2 = NULL THEN <<>>
                   ELSE EncodedString(LastPayload[1], last.str2))

C13_Witness ==
    /\ LastWritten
    /\ last.str2 # NULL
    /\ ~AllAscii(last.str2)
    /\ SubSeq(LastPayload, 1, 3) = <<ID3v2_ENCODING_UTF16BOM, 255, 254>>
    /\ Len(LastPayload) = 3 + 2 * Len(last.str1) + 2 + 2 * (Len(last.str2) - 1) + 2

\* C14: two calls of ff_id3v2_write_simple with the same version, magic and
\* ordered metadata, each into its own stream, the streams alike at the
\* start and nothing failing in either call, leave the same bytes in both
\* streams and the same stream position and return the same value.
C14_WriteSimpleDeterministic ==
    (/\ pc = "simple_ret"
     /\ simple.run = 2
     /\ FailureFree
     /\ hStart.version = simple.first.version
     /\ hStart.magic = simple.first.magic) =>
        /\ pb.buf = simple.first.pb.buf
        /\ pb.pos = simple.first.pb.pos
        /\ ret = simple.first.ret

C14_Witness ==
    /\ pc = "simple_ret"
    /\ simple.run = 2
    /\ FailureFree
    /\ hStart.version = simple.first.version
    /\ Len(calls) = 1
    /\ simple.input # metadata
    /\ pb.buf = simple.first.pb.buf
    /\ Len(pb.buf) > HeaderEnd
    /\ ret = simple.first.ret

\* C15: for a context zeroed before ff_id3v2_start, in every state between
\* start and finish at an entry boundary of ff_id3v2_write_metadata (before
\* its loop, between two entries, and where it returns, also with an
\* out-of-memory error), id3->len is the stream position minus (size offset
\* + 4); len is the sum of the values the successful frame writes returned:
\* no failed frame write adds to it.
C15_RunningLength ==
    (hStart.len = 0 /\ pc \in {"started", "wm_loop", "wm_ret"}) =>
        /\ id3.len = pb.pos - (id3.size_pos + 4)
        /\ id3.len = SumReturned(calls, 1)

C15_Witness ==
    /\ hStart.len = 0
    /\ pc = "wm_ret"
    /\ ret = AVERROR_ENOMEM
    /\ Len(calls) = 2
    /\ calls[1].ret > 0
    /\ calls[2].ret = AVERROR_ENOMEM
    /\ id3.len = calls[1].ret
    /\ id3.len = pb.pos - (id3.size_pos + 4)

\* the frame bytes of the first tag block of the stream, when a second one
\* was started right after it
FirstBlockBytes == hStart.pb.pos - (Len(StreamPrefix) + ID3v2_HEADER_SIZE)

\* the tag block being written is the second one of its context
SecondBlock == hStart.pb.pos > Len(StreamPrefix)

\* C16: ff_id3v2_start assigns the version and the size offset and leaves
\* the running length as it is: when a context is used for a second start,
\* write_metadata, finish without being zeroed, the length after the second
\* start is the frame bytes of the first block, and the size written into
\* the second block is the sum of the frame bytes of both blocks.
C16_ReusedContextAccumulates ==
    (SecondBlock /\ SinkAccepted) =>
        /\ hStart.len = FirstBlockBytes
        /\ pc = "started" =>
             /\ id3.len = FirstBlockBytes
             /\ id3.version = hStart.version
             /\ id3.size_pos = HeaderStart + 6
        /\ pc = "finished" =>
             SynchsafeDecode(SubSeq(pb.buf, HeaderStart + 7, HeaderStart + 10)) =
                 FirstBlockBytes + (Len(pb.buf) - HeaderEnd)

C16_Witness ==
    /\ SecondBlock
    /\ SinkAccepted
    /\ pc = "finished"
    /\ FirstBlockBytes > 0
    /\ Len(pb.buf) - HeaderEnd > 127
    /\ SynchsafeDecode(SubSeq(pb.buf, HeaderStart + 7, HeaderStart + 10)) =
           FirstBlockBytes + (Len(pb.buf) - HeaderEnd)

\* ff_id3v2_finish was called since the stream was set up
FinishCalled == hFinish.pos > 0

\* C17: ff_id3v2_write_simple reaches ff_id3v2_finish only after
\* ff_id3v2_write_metadata succeeded.  When write_metadata returns a negative
\* error, write_simple returns that error and finish was not called: the 4
\* bytes at the size offset are still zero, and the header and the frames
\* written before the error are in the stream.  When write_metadata
\* succeeds, write_simple returns 0 and the size bytes hold the running
\* length.  (What is in the stream is stated for a sink that accepted the
\* writes.)
C17_FinishOnlyAfterSuccess ==
    pc = "simple_ret" =>
        /\ simple.wm < 0 =>
             /\ ret = simple.wm
             /\ ~FinishCalled
             /\ SinkAccepted =>
                  /\ pb.buf = hStart.pb.buf \o hStart.magic
                               \o <<hStart.version, 0, 0, 0, 0, 0, 0>>
                               \o SubSeq(pb.buf, HeaderEnd + 1, Len(pb.buf))
                  /\ Len(pb.buf) = HeaderEnd + SumReturned(calls, 1)
                  /\ Len(StreamFrames) = Cardinality({k \in 1..Len(calls) :
                                                        calls[k].ret > 0})
        /\ simple.wm >= 0 =>
             /\ ret = 0
             /\ FinishCalled
             /\ SinkAccepted =>
                  /\ SynchsafeDecode(SubSeq(pb.buf, id3.size_pos + 1,
                                            id3.size_pos + 4)) = id3.len
                  /\ Len(pb.buf) = HeaderEnd + id3.len

C17_Witness ==
    /\ pc = "simple_ret"
    /\ simple.wm = AVERROR_ENOMEM
    /\ ret = AVERROR_ENOMEM
    /\ SinkAccepted
    /\ Len(calls) = 2
    /\ calls[1].ret > 127
    /\ Len(pb.buf) = HeaderEnd + calls[1].ret
    /\ SubSeq(pb.buf, id3.size_pos + 1, id3.size_pos + 4) = <<0, 0, 0, 0>>

====
